---- MODULE Spec2Model ----
(***************************************************************************)
(* Model of rename_dash_files.py: a walk of a directory tree that renames  *)
(* every entry whose base name starts with " - " so that it starts with    *)
(* "_", with an interactive prompt on a name collision.                    *)
(*                                                                         *)
(* A name is a sequence of one-character strings, a path is a sequence of  *)
(* names, the filesystem is a function from the paths that are present to  *)
(* the kind of entry found there.                                          *)
(***************************************************************************)
EXTENDS Integers, Sequences, FiniteSets, TLC

\* ------------------------------------------------------------------ bounds
\* Largest number of entries below the root in the initial tree.
MaxEntries == 3

\* ------------------------------------------------------------------ names
\* Base names the initial tree is built from.
NameDashA == <<" ", "-", " ", "a", ".", "t">>
NameUnderA == <<"_", "a", ".", "t">>
NameUnderA1 == <<"_", "a", "_", "1", ".", "t">>
NameDashA1 == <<" ", "-", " ", "a", "_", "1", ".", "t">>
NameDashD == <<" ", "-", " ", "d">>
NameUnderD == <<"_", "d">>

Names == {NameDashA, NameUnderA, NameUnderA1, NameDashA1, NameDashD,
          NameUnderD}

\* The resolved root directory; its own base name carries the prefix.
RootName == <<" ", "-", " ", "r">>
root == <<RootName>>

\* Kinds of directory entry.  A "link" is a symbolic link whose target is
\* missing: os.walk lists it among the files, Path.exists() is False for it.
Kinds == {"file", "dir", "link"}

None == "None"

\* ------------------------------------------------------------ str helpers
DashPrefix == <<" ", "-", " ">>

\* str.startswith
startswith(s, p) == Len(s) >= Len(p) /\ SubSeq(s, 1, Len(p)) = p

\* variant: the slice starts one character early
NewNameOfShortSlice(old_name) ==
    <<"_">> \o SubSeq(old_name, 3, Len(old_name))

\* '_' + old_name[3:]
NewNameOf(old_name) == <<"_">> \o SubSeq(old_name, 4, Len(old_name))

\* str.rfind('.') as a 1-based position, 0 when there is no dot
RECURSIVE rfindFrom(_, _)
rfindFrom(s, i) == IF i = 0 THEN 0
                   ELSE IF s[i] = "." THEN i ELSE rfindFrom(s, i - 1)

rfindDot(s) == rfindFrom(s, Len(s))

\* PurePath.suffix: the last dot and what follows it, unless the dot is the
\* first or the last character of the name
suffix(name) == LET i == rfindDot(name)
                IN  IF 1 < i /\ i < Len(name) THEN SubSeq(name, i, Len(name))
                    ELSE <<>>

\* PurePath.stem
stem(name) == LET i == rfindDot(name)
              IN  IF 1 < i /\ i < Len(name) THEN SubSeq(name, 1, i - 1)
                  ELSE name

\* str(counter) for a positive integer
Digit(d) == CASE d = 0 -> "0" [] d = 1 -> "1" [] d = 2 -> "2" [] d = 3 -> "3"
              [] d = 4 -> "4" [] d = 5 -> "5" [] d = 6 -> "6" [] d = 7 -> "7"
              [] d = 8 -> "8" [] d = 9 -> "9"

RECURSIVE str(_)
str(n) == IF n < 10 THEN <<Digit(n)>> ELSE str(n \div 10) \o <<Digit(n % 10)>>

\* f"{stem}_{counter}{suffix}"
NumberedName(original_name, counter) ==
    stem(original_name) \o <<"_">> \o str(counter) \o suffix(original_name)

\* str.lower on the characters the operator can type
LowerChar(c) == CASE c = "R" -> "r" [] c = "E" -> "e" [] c = "N" -> "n"
                  [] c = "A" -> "a" [] c = "M" -> "m" [] c = "S" -> "s"
                  [] c = "Y" -> "y" [] OTHER -> c

lower(s) == [i \in 1..Len(s) |-> LowerChar(s[i])]

IsSpace(c) == c \in {" ", "\n", "\t"}

RECURSIVE lstrip(_)
lstrip(s) == IF s # <<>> /\ IsSpace(Head(s)) THEN lstrip(Tail(s)) ELSE s

RECURSIVE rstrip(_)
rstrip(s) == IF s # <<>> /\ IsSpace(s[Len(s)])
             THEN rstrip(SubSeq(s, 1, Len(s) - 1)) ELSE s

\* str.strip
strip(s) == rstrip(lstrip(s))

\* ------------------------------------------------------------- filesystem
parent(p) == SubSeq(p, 1, Len(p) - 1)
name(p) == p[Len(p)]

IsPrefix(p, q) == Len(p) <= Len(q) /\ SubSeq(q, 1, Len(p)) = p

\* Path.exists(): follows symbolic links, so a dangling link does not exist
exists(f, p) == p \in DOMAIN f /\ f[p] # "link"

\* an entry of any kind is present at p (os.path.lexists)
lexists(f, p) == p \in DOMAIN f

Children(f, d) == {p \in DOMAIN f : Len(p) = Len(d) + 1 /\ parent(p) = d}

IsEmptyDir(f, p) == f[p] = "dir" /\ Children(f, p) = {}

\* Why os.rename(src, dst) raises OSError on POSIX, or None when it succeeds
RenameError(f, src, dst) ==
    IF ~lexists(f, src) THEN "ENOENT"
    ELSE IF ~lexists(f, dst) THEN None
    ELSE IF f[src] = "dir"
         THEN IF f[dst] # "dir" THEN "ENOTDIR"
              ELSE IF ~IsEmptyDir(f, dst) THEN "ENOTEMPTY" ELSE None
         ELSE IF f[dst] = "dir" THEN "EISDIR" ELSE None

\* Where the entry at p is found once src has become dst
Moved(p, src, dst) ==
    IF IsPrefix(src, p) THEN dst \o SubSeq(p, Len(src) + 1, Len(p)) ELSE p

\* The tree after a successful os.rename(src, dst): the entry at src and
\* everything below it moves to dst, replacing what was at dst
RenameFS(f, src, dst) ==
    LET kept == {p \in DOMAIN f : ~IsPrefix(src, p) /\ p # dst}
        moved == {p \in DOMAIN f : IsPrefix(src, p)}
    IN  [q \in kept \cup {Moved(p, src, dst) : p \in moved} |->
            IF IsPrefix(dst, q)
            THEN f[src \o SubSeq(q, Len(dst) + 1, Len(q))]
            ELSE f[q]]

\* --------------------------------------------------------------- discovery
\* Orders in which a directory listing can yield the names.  One order of
\* all the names of the tree is drawn for a walk and every directory is
\* listed in it; every order of the siblings of a directory is covered.
RECURSIVE Perms(_)
Perms(S) == IF S = {} THEN {<<>>}
            ELSE UNION {{<<n>> \o s : s \in Perms(S \ {n})} : n \in S}

\* the base names found in the tree
NamesIn(f) == {name(p) : p \in DOMAIN f \ {root}}

ListingOrders(f) == Perms(NamesIn(f))

\* os.scandir(top), in the order the listing yields
scandir(f, top, order) ==
    SelectSeq(order, LAMBDA n : (top \o <<n>>) \in DOMAIN f)

\* the paths of the names of a listing that start with ' - '
Matching(top, names) ==
    LET sel == SelectSeq(names, LAMBDA n : startswith(n, DashPrefix))
    IN  [i \in 1..Len(sel) |-> top \o <<sel[i]>>]

\* variant: os.walk(top) with its default topdown=True, a directory before
\* its subdirectories
RECURSIVE walkTopDown(_, _, _)
RECURSIVE walkDirsTopDown(_, _, _, _)
walkTopDown(f, top, order) ==
    IF ~lexists(f, top) \/ f[top] # "dir" THEN <<>>
    ELSE LET entries == scandir(f, top, order)
             dirnames == SelectSeq(entries, LAMBDA n : f[top \o <<n>>] = "dir")
             filenames == SelectSeq(entries, LAMBDA n : f[top \o <<n>>] # "dir")
         IN  Matching(top, filenames) \o Matching(top, dirnames)
             \o walkDirsTopDown(f, top, dirnames, order)

walkDirsTopDown(f, top, dirnames, order) ==
    IF dirnames = <<>> THEN <<>>
    ELSE walkTopDown(f, top \o <<Head(dirnames)>>, order)
         \o walkDirsTopDown(f, top, Tail(dirnames), order)

\* variant: the loop over dirnames (lines 77-79) is missing
RECURSIVE walkFilesOnly(_, _, _)
RECURSIVE walkDirsFilesOnly(_, _, _, _)
walkFilesOnly(f, top, order) ==
    IF ~lexists(f, top) \/ f[top] # "dir" THEN <<>>
    ELSE LET entries == scandir(f, top, order)
             dirnames == SelectSeq(entries, LAMBDA n : f[top \o <<n>>] = "dir")
             filenames == SelectSeq(entries, LAMBDA n : f[top \o <<n>>] # "dir")
         IN  walkDirsFilesOnly(f, top, dirnames, order)
             \o Matching(top, filenames)

walkDirsFilesOnly(f, top, dirnames, order) ==
    IF dirnames = <<>> THEN <<>>
    ELSE walkFilesOnly(f, top \o <<Head(dirnames)>>, order)
         \o walkDirsFilesOnly(f, top, Tail(dirnames), order)

\* os.walk(top, topdown=False) with the loop body of lines 69-79 applied to
\* every triple it yields: the subdirectories first, then the directory
RECURSIVE walk(_, _, _)
RECURSIVE walkDirs(_, _, _, _)
walk(f, top, order) ==
    IF ~lexists(f, top) \/ f[top] # "dir" THEN <<>>
    ELSE LET entries == scandir(f, top, order)
             dirnames == SelectSeq(entries, LAMBDA n : f[top \o <<n>>] = "dir")
             filenames == SelectSeq(entries, LAMBDA n : f[top \o <<n>>] # "dir")
         IN  walkDirs(f, top, dirnames, order)
             \o Matching(top, filenames) \o Matching(top, dirnames)

walkDirs(f, top, dirnames, order) ==
    IF dirnames = <<>> THEN <<>>
    ELSE walk(f, top \o <<Head(dirnames)>>, order)
         \o walkDirs(f, top, Tail(dirnames), order)

\* find_available_name: probe stem_1suffix, stem_2suffix, ... and return
\* the first path for which Path.exists() is False
RECURSIVE probe(_, _, _, _)
probe(f, base_path, original_name, counter) ==
    LET new_path == base_path \o <<NumberedName(original_name, counter)>>
    IN  IF ~exists(f, new_path) THEN new_path
        ELSE probe(f, base_path, original_name, counter + 1)

\* variant: the counter starts at 2
find_available_name_from2(f, base_path, original_name) ==
    probe(f, base_path, original_name, 2)

find_available_name(f, base_path, original_name) ==
    probe(f, base_path, original_name, 1)

\* ----------------------------------------------------------- initial trees
Dirs(f) == {p \in DOMAIN f : f[p] = "dir"}

\* the kinds of entry the initial tree has under each name
InitialKinds(n) == CASE n = NameDashA -> {"file"}
                     [] n = NameUnderA -> {"file", "link"}
                     [] n = NameUnderA1 -> {"file", "link"}
                     [] n = NameDashA1 -> {"file"}
                     [] n = NameDashD -> {"dir"}
                     [] n = NameUnderD -> {"dir", "link"}

\* the trees obtained from f by adding one entry to one of its directories
Grow(f) == UNION {UNION {{f @@ ((d \o <<n>>) :> k) : k \in InitialKinds(n)} :
                      n \in {m \in Names : (d \o <<m>>) \notin DOMAIN f}} :
                  d \in Dirs(f)}

RECURSIVE TreesUpTo(_)
TreesUpTo(k) == IF k = 0 THEN {root :> "dir"}
                ELSE LET prev == TreesUpTo(k - 1)
                     IN  prev \cup UNION {Grow(f) : f \in prev}

\* no entry at the root path
NoRoot == [p \in {} |-> "file"]

InitialTrees == TreesUpTo(MaxEntries) \cup {NoRoot, root :> "file"}

\* ---------------------------------------------------------- operator input
\* Lines the operator can type at the two yes/no prompts (input() drops the
\* newline)
YesNoLines == { <<"y">>, <<" ", "Y", "E", "S", " ">>, <<"n">> }

\* Lines the operator can type at the conflict prompt (readline() keeps the
\* newline)
ConflictLines == { <<" ", "r", "\n">>,
                   <<"R", "e", "n", "a", "m", "e", "\n">>,
                   <<"s", "\n">>, <<"\n">> }

YesAnswers == { <<"y">>, <<"y", "e", "s">> }
RenameAnswers == { <<"r">>, <<"r", "e", "n", "a", "m", "e">> }

\* value of a variable of __main__ that has not been assigned yet
Unset == <<"<unset>">>

\* ------------------------------------------------------------------- state
VARIABLES
    fs,               \* the directory tree: path -> kind
    has_arg,          \* len(sys.argv) >= 2
    pc,               \* position of the script
    response,         \* __main__: answer to the dry-run prompt
    proceed,          \* __main__: answer to the proceed prompt
    dry_run,          \* rename_dash_prefix: the dry_run argument
    items_to_rename,  \* rename_dash_prefix: the collected paths
    idx,              \* rename_dash_prefix: position of the for loop
    renamed_count,    \* rename_dash_prefix
    skipped_items,    \* rename_dash_prefix
    last,             \* what the last step printed and read
    dry_report,       \* item -> line the dry run printed for it
    exec_report       \* item -> what the execute run printed for it

vars == <<fs, has_arg, pc, response, proceed, dry_run, items_to_rename, idx,
          renamed_count, skipped_items, last, dry_report, exec_report>>

NoReport == [p \in {} |-> ""]

NoOutput == [line |-> "", raised |-> "", item |-> <<>>, target |-> <<>>, dest |-> <<>>,
             conflict |-> FALSE, prompted |-> FALSE, timed_out |-> FALSE,
             response |-> <<>>]

Out(line) == [NoOutput EXCEPT !.line = line]

Init ==
    /\ fs \in InitialTrees
    /\ has_arg \in BOOLEAN
    /\ pc = "main"
    /\ response = Unset
    /\ proceed = Unset
    /\ dry_run = TRUE
    /\ items_to_rename = <<>>
    /\ idx = 1
    /\ renamed_count = 0
    /\ skipped_items = <<>>
    /\ last = NoOutput
    /\ dry_report = NoReport
    /\ exec_report = NoReport

locals == <<items_to_rename, idx, renamed_count, skipped_items>>
reports == <<dry_report, exec_report>>

\* where __main__ continues when rename_dash_prefix returns
AfterReturn == IF dry_run THEN "ask_proceed" ELSE "done"

\* ---------------------------------------------------------------- __main__
\* lines 139-143
CheckArgs ==
    /\ pc = "main"
    /\ IF has_arg
       THEN pc' = "ask_dry_run" /\ last' = NoOutput
       ELSE pc' = "exit_usage" /\ last' = Out("usage")
    /\ UNCHANGED <<fs, has_arg, response, proceed, dry_run, locals, reports>>

\* lines 146-150 and 159-161
AskDryRun ==
    /\ pc = "ask_dry_run"
    /\ \E line \in YesNoLines :
          /\ response' = lower(strip(line))
          /\ dry_run' = (response' \in YesAnswers)
    /\ pc' = "call"
    /\ last' = NoOutput
    /\ UNCHANGED <<fs, has_arg, proceed, locals, reports>>

\* variant: the answer to the proceed prompt is not tested
AskProceedAlways ==
    /\ pc = "ask_proceed"
    /\ \E line \in YesNoLines : proceed' = lower(strip(line))
    /\ pc' = "call" /\ dry_run' = FALSE /\ last' = NoOutput
    /\ UNCHANGED <<fs, has_arg, response, locals, reports>>

\* lines 153-158
AskProceed ==
    /\ pc = "ask_proceed"
    /\ \E line \in YesNoLines :
          /\ proceed' = lower(strip(line))
          /\ IF proceed' \in YesAnswers
             THEN pc' = "call" /\ dry_run' = FALSE /\ last' = NoOutput
             ELSE pc' = "done" /\ dry_run' = dry_run
                  /\ last' = Out("cancelled")
    /\ UNCHANGED <<fs, has_arg, response, locals, reports>>

\* ------------------------------------------------------ rename_dash_prefix
\* lines 60-88: the root check, the collection, the empty-list return
Collect ==
    /\ pc = "call"
    /\ IF ~exists(fs, root)
       THEN /\ pc' = AfterReturn
            /\ last' = Out("not_found")
            /\ UNCHANGED locals
       ELSE \E order \in ListingOrders(fs) :
               LET items == walk(fs, root, order)
               IN  IF items = <<>>
                   THEN /\ pc' = AfterReturn
                        /\ last' = Out("no_items")
                        /\ items_to_rename' = items
                        /\ UNCHANGED <<idx, renamed_count, skipped_items>>
                   ELSE /\ pc' = "loop"
                        /\ last' = Out("found")
                        /\ items_to_rename' = items
                        /\ idx' = 1
                        /\ renamed_count' = 0
                        /\ skipped_items' = <<>>
    /\ UNCHANGED <<fs, has_arg, response, proceed, dry_run, reports>>

InLoop == pc = "loop" /\ idx <= Len(items_to_rename)

\* lines 90-93
item == items_to_rename[idx]
old_name == name(item)
new_name == NewNameOf(old_name)
new_path == parent(item) \o <<new_name>>

Line(l, dest) == [Out(l) EXCEPT !.item = item, !.target = new_path,
                                !.dest = dest]

\* variant: the target is looked up without following symbolic links
DryLineNoFollow(f, p) == IF lexists(f, p) THEN "dry_conflict" ELSE "dry_would"

\* lines 96-99: the line the dry run prints for a target path
DryLine(f, p) == IF exists(f, p) THEN "dry_conflict" ELSE "dry_would"

\* variant: the dry_run test of line 95 is missing, the rename of line 122
\* is carried out
DryStepRenames ==
    /\ InLoop /\ dry_run
    /\ ~exists(fs, new_path)
    /\ RenameError(fs, item, new_path) = None
    /\ fs' = RenameFS(fs, item, new_path)
    /\ renamed_count' = renamed_count + 1
    /\ idx' = idx + 1
    /\ last' = Line("renamed", new_path)
    /\ UNCHANGED <<has_arg, pc, response, proceed, dry_run, items_to_rename,
                   skipped_items, dry_report, exec_report>>

\* lines 95-99
DryStep ==
    /\ InLoop /\ dry_run
    /\ LET l == DryLine(fs, new_path)
       IN  /\ last' = Line(l, new_path)
           /\ dry_report' = (item :> l) @@ dry_report
    /\ idx' = idx + 1
    /\ UNCHANGED <<fs, has_arg, pc, response, proceed, dry_run,
                   items_to_rename, renamed_count, skipped_items, exec_report>>

\* line 96 raising: nothing catches it, the script ends with a traceback
DryCrash ==
    /\ InLoop /\ dry_run
    /\ pc' = "crashed"
    /\ last' = Line("traceback", new_path)
    /\ UNCHANGED <<fs, has_arg, response, proceed, dry_run, locals, reports>>

Report(conflict, outcome, dest) ==
    (item :> [conflict |-> conflict, outcome |-> outcome, dest |-> dest])
        @@ exec_report

\* lines 120-124: no conflict, rename normally
ExecRename ==
    /\ InLoop /\ ~dry_run
    /\ ~exists(fs, new_path)
    /\ RenameError(fs, item, new_path) = None
    /\ fs' = RenameFS(fs, item, new_path)
    /\ renamed_count' = renamed_count + 1
    /\ idx' = idx + 1
    /\ last' = Line("renamed", new_path)
    /\ exec_report' = Report(FALSE, "renamed", new_path)
    /\ UNCHANGED <<has_arg, pc, response, proceed, dry_run, items_to_rename,
                   skipped_items, dry_report>>

\* get_input_with_timeout: the stripped line, or a timeout
Answers == {[timed_out |-> FALSE, response |-> strip(l)] : l \in ConflictLines}
           \cup {[timed_out |-> TRUE, response |-> <<>>]}

\* variant: a timeout is taken for the answer 'r'
ChoseRenameOnTimeout(a) ==
    a.timed_out \/ (a.response # <<>> /\ lower(a.response) \in RenameAnswers)

\* line 110
ChoseRename(a) ==
    ~a.timed_out /\ a.response # <<>> /\ lower(a.response) \in RenameAnswers

Prompted(l, dest, a) ==
    [Line(l, dest) EXCEPT !.conflict = TRUE, !.prompted = TRUE,
                          !.timed_out = a.timed_out, !.response = a.response]

\* lines 103-115: conflict, the operator chooses a numbered name
ExecConflictRename ==
    /\ InLoop /\ ~dry_run
    /\ exists(fs, new_path)
    /\ \E a \in Answers :
          /\ ChoseRename(a)
          /\ LET numbered == find_available_name(fs, parent(item), new_name)
             IN  /\ RenameError(fs, item, numbered) = None
                 /\ fs' = RenameFS(fs, item, numbered)
                 /\ last' = Prompted("renamed_numbered", numbered, a)
                 /\ exec_report' = Report(TRUE, "renamed", numbered)
    /\ renamed_count' = renamed_count + 1
    /\ idx' = idx + 1
    /\ UNCHANGED <<has_arg, pc, response, proceed, dry_run, items_to_rename,
                   skipped_items, dry_report>>

\* lines 103-109, 116-119: conflict, the operator skips or does not answer
ExecConflictSkip ==
    /\ InLoop /\ ~dry_run
    /\ exists(fs, new_path)
    /\ \E a \in Answers :
          /\ ~ChoseRename(a)
          /\ last' = Prompted("skipped", new_path, a)
    /\ skipped_items' = Append(skipped_items, item)
    /\ idx' = idx + 1
    /\ exec_report' = Report(TRUE, "skipped", item)
    /\ UNCHANGED <<fs, has_arg, pc, response, proceed, dry_run,
                   items_to_rename, renamed_count, dry_report>>

\* variant: no try/except around lines 102-124, the exception ends the script
ExecErrorUncaught ==
    /\ InLoop /\ ~dry_run
    /\ pc' = "crashed"
    /\ last' = [Line("traceback", new_path) EXCEPT !.raised = "exists"]
    /\ UNCHANGED <<fs, has_arg, response, proceed, dry_run, locals, reports>>

\* lines 125-127: an exception of the existence check (line 103), of the
\* probing (line 112) or of a rename (lines 113, 122) is caught
ExecError ==
    /\ InLoop /\ ~dry_run
    /\ \/ /\ last' = [Line("error", new_path) EXCEPT !.raised = "exists"]
          /\ exec_report' = Report(FALSE, "error", item)
       \/ /\ ~exists(fs, new_path)
          /\ last' = [Line("error", new_path) EXCEPT !.raised = "rename"]
          /\ exec_report' = Report(FALSE, "error", item)
       \/ /\ exists(fs, new_path)
          /\ \E a \in Answers, r \in {"probe", "rename"} :
                /\ ChoseRename(a)
                /\ last' = [Prompted("error", new_path, a)
                               EXCEPT !.raised = r]
          /\ exec_report' = Report(TRUE, "error", item)
    /\ skipped_items' = Append(skipped_items, item)
    /\ idx' = idx + 1
    /\ UNCHANGED <<fs, has_arg, pc, response, proceed, dry_run,
                   items_to_rename, renamed_count, dry_report>>

\* lines 129-136
Summary ==
    /\ pc = "loop" /\ idx > Len(items_to_rename)
    /\ pc' = AfterReturn
    /\ last' = Out(IF dry_run THEN "dry_run_complete" ELSE "summary")
    /\ UNCHANGED <<fs, has_arg, response, proceed, dry_run, locals, reports>>

Next ==
    \/ CheckArgs
    \/ AskDryRun
    \/ AskProceed
    \/ Collect
    \/ DryStep
    \/ DryCrash
    \/ ExecRename
    \/ ExecConflictRename
    \/ ExecConflictSkip
    \/ ExecError
    \/ Summary

Spec == Init /\ [][Next]_vars

\* ================================================================ properties
\* helpers of the properties, stated without the operators of the model
HasDashPrefix(n) == Len(n) >= 3 /\ n[1] = " " /\ n[2] = "-" /\ n[3] = " "
Drop3(n) == Tail(Tail(Tail(n)))
TargetOf(p) == parent(p) \o <<(<<"_">> \o Drop3(name(p)))>>
Range(s) == {s[i] : i \in 1..Len(s)}
ExecLoop == pc = "loop" /\ ~dry_run
TypedRename == { <<"r">>, <<"R", "e", "n", "a", "m", "e">> }

\* C1: in an execute run a candidate nested inside a directory candidate comes
\* before that directory in the list, and every candidate that has not had
\* its turn yet is still present at its collected path.
C1_NestedBeforeEnclosing ==
    ExecLoop =>
        /\ \A i, j \in 1..Len(items_to_rename) :
              (i # j /\ IsPrefix(items_to_rename[j], items_to_rename[i]))
                  => i < j
        /\ \A k \in idx..Len(items_to_rename) :
              lexists(fs, items_to_rename[k])

\* C1 witness: a candidate nested in a directory candidate has just been
\* renamed and the enclosing directory is still to come.
C1_Witness ==
    /\ ExecLoop /\ idx <= Len(items_to_rename)
    /\ last.line \in {"renamed", "renamed_numbered"}
    /\ \E k \in idx..Len(items_to_rename) :
          /\ IsPrefix(items_to_rename[k], last.item)
          /\ items_to_rename[k] # last.item

\* C2: no step of a dry run changes the tree or prompts the operator.
C2_DryRunFrame ==
    [][(dry_run /\ pc \in {"call", "loop"})
          => (fs' = fs /\ ~last'.prompted /\ ~last'.conflict)]_vars

\* C2 witness: a dry run over a tree with a conflict has completed.
C2_Witness ==
    /\ pc = "ask_proceed" /\ last.line = "dry_run_complete"
    /\ \E p \in DOMAIN dry_report : dry_report[p] = "dry_conflict"
    /\ \E p \in DOMAIN dry_report : dry_report[p] = "dry_would"

\* C3: an execute step on a candidate whose target does not exist and that
\* raises no error leaves the entry at the target ("_" + name minus its first
\* 3 characters, same parent), nothing at the old path, and counts it.
C3_PlainRename ==
    [][(ExecLoop /\ idx <= Len(items_to_rename) /\ ~exists(fs, TargetOf(item))
            /\ last'.line # "error")
          => /\ lexists(fs', TargetOf(item))
             /\ fs'[TargetOf(item)] = fs[item]
             /\ ~lexists(fs', item)
             /\ renamed_count' = renamed_count + 1
             /\ last'.line = "renamed" /\ last'.dest = TargetOf(item)]_vars

\* C3 witness: a directory candidate with an entry inside was renamed to its
\* target.
C3_Witness ==
    /\ last.line = "renamed"
    /\ fs[last.dest] = "dir"
    /\ Children(fs, last.dest) # {}
    /\ name(last.dest) = NameUnderD

\* the smallest N >= 1 for which stem_N+ext does not exist in directory d
SmallestFree(f, d, target_name) ==
    LET cand(n) == d \o <<(stem(target_name) \o <<"_">> \o str(n)
                           \o suffix(target_name))>>
    IN  CHOOSE n \in 1..(Cardinality(DOMAIN f) + 1) :
            /\ ~exists(f, cand(n))
            /\ \A m \in 1..(n - 1) : exists(f, cand(m))

C5_SkipFrame ==
    [][(ExecLoop /\ idx <= Len(items_to_rename) /\ last'.prompted
            /\ (last'.timed_out \/ last'.response \notin TypedRename))
          => /\ fs' = fs
             /\ renamed_count' = renamed_count
             /\ skipped_items' = Append(skipped_items, item)
             /\ items_to_rename' = items_to_rename
             /\ idx' = idx + 1 /\ pc' = "loop"
             /\ last'.line = "skipped" /\ last'.item = item
             /\ exec_report' =
                  (item :> [conflict |-> TRUE, outcome |-> "skipped",
                            dest |-> item]) @@ exec_report]_vars

\* C5 witness: a conflict prompt timed out and the candidate is still there.
C5_Witness ==
    /\ last.line = "skipped" /\ last.timed_out
    /\ lexists(fs, last.item) /\ exists(fs, last.target)
    /\ idx <= Len(items_to_rename)

\* C6: an error raised while a candidate is handled changes nothing in the
\* tree, puts the candidate on the skipped list, does not count it, and
\* leaves the loop at the next candidate; every step of the loop either moves
\* to the next candidate or, after the last one, prints the summary, and the
\* loop always has a step to take; a run that has printed its summary has
\* handled every candidate.
C6_ErrorIsSkip ==
    /\ [][(ExecLoop /\ idx <= Len(items_to_rename) /\ last'.raised # "")
            => /\ fs' = fs
               /\ skipped_items' = Append(skipped_items, item)
               /\ renamed_count' = renamed_count
               /\ items_to_rename' = items_to_rename
               /\ idx' = idx + 1 /\ pc' = "loop"]_vars
    /\ [][ExecLoop
            => \/ /\ idx <= Len(items_to_rename)
                  /\ idx' = idx + 1 /\ pc' = "loop"
                  /\ items_to_rename' = items_to_rename
               \/ /\ idx > Len(items_to_rename)
                  /\ pc' = "done" /\ last'.line = "summary"]_vars
    /\ [](ExecLoop => ENABLED Next)
    /\ []((pc = "done" /\ last.line = "summary")
            => /\ Range(items_to_rename) = DOMAIN exec_report
               /\ renamed_count + Len(skipped_items) = Len(items_to_rename))

\* C6 witness: the summary was reached after an error on a candidate that was
\* followed by a renamed one.
C6_Witness ==
    /\ pc = "done" /\ last.line = "summary"
    /\ \E i, j \in 1..Len(items_to_rename) :
          /\ i < j
          /\ exec_report[items_to_rename[i]].outcome = "error"
          /\ exec_report[items_to_rename[j]].outcome = "renamed"

C8_TopLevelFlow ==
    /\ [][/\ (fs' # fs) =>
               /\ pc = "loop" /\ ~dry_run
               /\ response # Unset
               /\ (response \in { <<"y">>, <<"y", "e", "s">> }
                     => proceed \in { <<"y">>, <<"y", "e", "s">> })
          /\ (pc' = "call" /\ pc # "call") =>
               \/ /\ pc = "ask_dry_run"
                  /\ dry_run' = (response' \in { <<"y">>, <<"y", "e", "s">> })
                  /\ proceed' = Unset
               \/ /\ pc = "ask_proceed" /\ ~dry_run'
                  /\ proceed' \in { <<"y">>, <<"y", "e", "s">> }
          /\ (pc' = "ask_proceed" /\ pc # "ask_proceed") =>
               /\ dry_run /\ pc \in {"call", "loop"}
               /\ response \in { <<"y">>, <<"y", "e", "s">> }
          /\ (pc = "ask_proceed"
                /\ proceed' \notin { <<"y">>, <<"y", "e", "s">> })
               => pc' = "done" /\ fs' = fs
          /\ pc = "done" => UNCHANGED vars]_vars
    /\ [](response \notin { <<"y">>, <<"y", "e", "s">> } => proceed = Unset)

\* C8 witness: the operator asked for a dry run, answered yes to proceed, and
\* the execute run renamed an entry.
C8_Witness ==
    /\ response = <<"y", "e", "s">> /\ proceed = <<"y">>
    /\ ExecLoop /\ last.line = "renamed"

\* C9 (as claimed): a rename never lands on an entry that is there, so the
\* number of entries never changes.
C9_NoOverwrite ==
    [][(fs' # fs)
          => /\ ~lexists(fs, last'.dest)
             /\ Cardinality(DOMAIN fs') = Cardinality(DOMAIN fs)]_vars

\* what the execute run met for the candidate it has just handled
MetConflict == last.conflict
JustHandled == last.line \in {"renamed", "renamed_numbered", "skipped", "error"}
\* an earlier conflict was answered with rename and the numbered name it
\* produced is the target of the candidate just handled
TargetTakenByNumbering ==
    \E q \in DOMAIN exec_report \ {last.item} :
        /\ exec_report[q].conflict /\ exec_report[q].outcome = "renamed"
        /\ exec_report[q].dest = last.target

====
